---- MODULE Spec2Model ----
(***************************************************************************)
(* DateTimeIntervalExpr of datafusion/physical-expr/src/expressions/       *)
(* datetime.rs: the physical expression for DATE/TIMESTAMP/INTERVAL +/-    *)
(* INTERVAL and TIMESTAMP - TIMESTAMP.                                     *)
(*                                                                         *)
(* The node is a record (lhs, op, rhs, input_schema).  A Result<T> is a    *)
(* record with the field ok; an error carries its DataFusionError kind and *)
(* the fixed prefix of its message.                                        *)
(***************************************************************************)
EXTENDS Integers, Sequences, FiniteSets, TLC

VARIABLES node, ret, workers

vars == <<node, ret, workers>>

(***************************************************************************)
(* Bounds of the model.  The integer widths of the columnar types (i32 day *)
(* counts, i64 millisecond and timestamp counts, i32 interval parts) are   *)
(* scaled down to these ranges: a value v fits when -Max <= v <= Max.      *)
(***************************************************************************)
MaxLen == 2

MaxDate32 == 3

MaxDate64 == 172800000

MaxTs == 1000000

MaxIvDays == 8

MaxIvSub == 1000000000

(***************************************************************************)
(* Result<T>                                                               *)
(***************************************************************************)
Ok(v) == [ok |-> TRUE, val |-> v]

Err(kind, msg) == [ok |-> FALSE, kind |-> kind, msg |-> msg]

(***************************************************************************)
(* arrow DataType, as far as the node tells the types apart: Timestamp     *)
(* carries its time unit, Interval its subtype.                            *)
(***************************************************************************)
Date32 == [id |-> "Date32", p |-> "-"]

Date64 == [id |-> "Date64", p |-> "-"]

Timestamp(unit) == [id |-> "Timestamp", p |-> unit]

Interval(sub) == [id |-> "Interval", p |-> sub]

NullType == [id |-> "Null", p |-> "-"]

Int64 == [id |-> "Int64", p |-> "-"]

TimeUnits == {"Second", "Millisecond"}

IntervalUnits == {"DayTime", "MonthDayNano"}

DataTypes ==
    {Date32, Date64, NullType, Int64}
        \cup {Timestamp(u) : u \in TimeUnits}
        \cup {Interval(s) : s \in IntervalUnits}

(***************************************************************************)
(* datafusion_expr::Operator, the operators the node can be asked to hold. *)
(***************************************************************************)
Operators == {"Plus", "Minus", "Multiply", "Eq", "Lt"}

is_comparison_operator(op) == op \in {"Eq", "NotEq", "Lt", "LtEq", "Gt", "GtEq"}

(***************************************************************************)
(* ScalarValue: a data type and an optional value.  A value has a day part *)
(* d and a sub-day part t: Date32 uses d (days), Date64 and Timestamp use  *)
(* t (milliseconds, or ticks of the time unit), Interval(DayTime) uses d   *)
(* and t (milliseconds), Interval(MonthDayNano) uses d and t (nanoseconds) *)
(* with a month part that is zero in every value of the model.             *)
(***************************************************************************)
None == [some |-> FALSE]

Some(d, t) == [some |-> TRUE, d |-> d, t |-> t]

Scalar(dt, v) == [dt |-> dt, v |-> v]

get_datatype(scalar) == scalar.dt

is_null(scalar) == ~scalar.v.some

(***************************************************************************)
(* The children of the node are other physical expressions.  The model has *)
(* the two leaves the tests build with create_physical_expr: a literal and *)
(* a column reference; the node only uses their PhysicalExpr capabilities. *)
(***************************************************************************)
Literal(scalar) == [kind |-> "Literal", value |-> scalar]

Column(index) == [kind |-> "Column", index |-> index]

Field(dt, nullable) == [dt |-> dt, nullable |-> nullable]

data_type(expr, input_schema) ==
    IF expr.kind = "Literal"
    THEN get_datatype(expr.value)
    ELSE input_schema[expr.index + 1].dt

\* A literal is nullable when its value is null; a column has the nullability of
\* its field, and fails on a schema that has no field at its index.
nullable(expr, input_schema) ==
    IF expr.kind = "Literal"
    THEN Ok(is_null(expr.value))
    ELSE IF expr.index + 1 \in DOMAIN input_schema
    THEN Ok(input_schema[expr.index + 1].nullable)
    ELSE Err("Internal", <<"Column index out of the input schema",
                           expr.index, Len(input_schema)>>)

expr_eq(a, b) == a = b

(***************************************************************************)
(* The inputs of the model: schemas of two columns, and child expressions. *)
(***************************************************************************)
Schemas ==
    { <<Field(Date32, FALSE), Field(Interval("DayTime"), TRUE)>>,
      <<Field(Date64, TRUE), Field(Interval("MonthDayNano"), FALSE)>>,
      <<Field(Timestamp("Second"), FALSE), Field(Interval("DayTime"), FALSE)>>,
      <<Field(Interval("DayTime"), TRUE), Field(Timestamp("Millisecond"), FALSE)>> }

Literals ==
    { Scalar(Date32, Some(0, 0)),
      Scalar(Date32, None),
      Scalar(Timestamp("Second"), Some(0, 2)),
      Scalar(Interval("DayTime"), Some(1, 0)),
      Scalar(Interval("DayTime"), None),
      Scalar(Interval("MonthDayNano"), Some(0, 1000)),
      Scalar(NullType, None),
      Scalar(Int64, Some(0, 1)) }

Exprs == {Literal(s) : s \in Literals} \cup {Column(0), Column(1)}

\* The schemas a node is asked about: the input schemas, and a schema of one
\* column, in which Column(1) has no field.
QuerySchemas == Schemas \cup {<<Field(Date32, TRUE)>>}

(***************************************************************************)
(* DateTimeIntervalExpr                                                    *)
(***************************************************************************)
DateTimeIntervalExpr(lhs, op, rhs, input_schema) ==
    [kind |-> "DateTimeIntervalExpr",
     lhs |-> lhs, op |-> op, rhs |-> rhs, input_schema |-> input_schema]

\* try_new with the arm (Interval, Plus, Timestamp) widened to Plus | Minus.
try_new_interval_minus_timestamp(lhs, op, rhs, input_schema) ==
    LET lt == data_type(lhs, input_schema)
        rt == data_type(rhs, input_schema)
    IN  IF \/ /\ lt.id \in {"Date32", "Date64", "Timestamp"}
              /\ op \in {"Plus", "Minus"}
              /\ rt.id = "Interval"
           \/ /\ lt.id = "Timestamp"
              /\ op = "Minus"
              /\ rt.id = "Timestamp"
           \/ /\ lt.id = "Interval"
              /\ op \in {"Plus", "Minus"}
              /\ rt.id \in {"Timestamp", "Interval"}
        THEN Ok(DateTimeIntervalExpr(lhs, op, rhs, input_schema))
        ELSE Err("Execution", <<"Invalid operation for DateIntervalExpr", op, lt, rt>>)

\* try_new with a Null operand taken for an Interval.
try_new_null_as_interval(lhs, op, rhs, input_schema) ==
    LET lt == data_type(lhs, input_schema)
        rt == data_type(rhs, input_schema)
    IN  IF \/ /\ lt.id \in {"Date32", "Date64", "Timestamp"}
              /\ op \in {"Plus", "Minus"}
              /\ rt.id \in {"Interval", "Null"}
           \/ /\ lt.id = "Timestamp"
              /\ op = "Minus"
              /\ rt.id = "Timestamp"
           \/ /\ lt.id = "Interval"
              /\ op = "Plus"
              /\ rt.id = "Timestamp"
           \/ /\ lt.id = "Interval"
              /\ op \in {"Plus", "Minus"}
              /\ rt.id = "Interval"
        THEN Ok(DateTimeIntervalExpr(lhs, op, rhs, input_schema))
        ELSE Err("Execution", <<"Invalid operation for DateIntervalExpr", op, lt, rt>>)

try_new(lhs, op, rhs, input_schema) ==
    LET lt == data_type(lhs, input_schema)
        rt == data_type(rhs, input_schema)
    IN  IF \/ /\ lt.id \in {"Date32", "Date64", "Timestamp"}
              /\ op \in {"Plus", "Minus"}
              /\ rt.id = "Interval"
           \/ /\ lt.id = "Timestamp"
              /\ op = "Minus"
              /\ rt.id = "Timestamp"
           \/ /\ lt.id = "Interval"
              /\ op = "Plus"
              /\ rt.id = "Timestamp"
           \/ /\ lt.id = "Interval"
              /\ op \in {"Plus", "Minus"}
              /\ rt.id = "Interval"
        THEN Ok(DateTimeIntervalExpr(lhs, op, rhs, input_schema))
        ELSE Err("Execution", <<"Invalid operation for DateIntervalExpr", op, lt, rt>>)

\* nullable that also reports a nullable right child.
nullable_either_child(self, input_schema) ==
    LET l == nullable(self.lhs, input_schema)
        r == nullable(self.rhs, input_schema)
    IN  IF ~l.ok THEN l
        ELSE IF ~r.ok THEN r
        ELSE Ok(l.val \/ r.val)

\* PhysicalExpr::nullable of the node.
DateTimeIntervalExpr_nullable(self, input_schema) ==
    nullable(self.lhs, input_schema)

children(self) == <<self.lhs, self.rhs>>

\* with_new_children that builds the node without the type check.
with_new_children_unchecked(self, new_children) ==
    Ok(DateTimeIntervalExpr(new_children[1], self.op, new_children[2],
                            self.input_schema))

\* with_new_children that rebuilds every node with Operator::Plus.
with_new_children_plus(self, new_children) ==
    try_new(new_children[1], "Plus", new_children[2], self.input_schema)

with_new_children(self, new_children) ==
    try_new(new_children[1], self.op, new_children[2], self.input_schema)

\* with_new_children that overwrites the node it was called on.
with_new_children_in_place(self, new_children) ==
    LET r == with_new_children(self, new_children)
    IN  [shared |-> IF r.ok THEN r.val ELSE self, result |-> r]

\* with_new_children on a node that has other owners: what the call returns, and
\* the node the other owners hold after it.  The call reads self.op and
\* self.input_schema and allocates the node it returns.
with_new_children_shared(self, new_children) ==
    [shared |-> self, result |-> with_new_children(self, new_children)]

\* eq that also compares the stored input schemas.
eq_with_schema(self, other) ==
    IF other.kind = "DateTimeIntervalExpr"
    THEN /\ expr_eq(self.lhs, other.lhs)
         /\ self.op = other.op
         /\ expr_eq(self.rhs, other.rhs)
         /\ self.input_schema = other.input_schema
    ELSE FALSE

eq(self, other) ==
    IF other.kind = "DateTimeIntervalExpr"
    THEN /\ expr_eq(self.lhs, other.lhs)
         /\ self.op = other.op
         /\ expr_eq(self.rhs, other.rhs)
    ELSE FALSE

(***************************************************************************)
(* Columnar values and arrays.  An array has an element type and a         *)
(* sequence of optional values; try_unary (arrow) applies a fallible       *)
(* function to the non-null elements, keeps the nulls where they are and   *)
(* returns the first error instead of an array.                            *)
(***************************************************************************)
ArrayOf(dt, vals) == [dt |-> dt, vals |-> vals]

CVScalar(scalar) == [shape |-> "Scalar", scalar |-> scalar]

CVArray(array) == [shape |-> "Array", array |-> array]

to_array(scalar) == ArrayOf(scalar.dt, <<scalar.v>>)

Min(S) == CHOOSE x \in S : \A y \in S : x <= y

Elems(vals) == {vals[i] : i \in {j \in DOMAIN vals : vals[j].some}}

try_unary(vals, op) ==
    LET bad == {i \in DOMAIN vals : vals[i].some /\ ~op[vals[i]].ok}
    IN  IF bad # {}
        THEN op[vals[Min(bad)]]
        ELSE Ok([i \in DOMAIN vals |->
                    IF vals[i].some THEN op[vals[i]].val ELSE None])

(***************************************************************************)
(* Element arithmetic of the scalar domain (datafusion_common::scalar).    *)
(* An overflow of the target width is an error.  The sub-day part of an    *)
(* interval is below one day in every value of the model, so that it adds  *)
(* no whole day to a date.                                                 *)
(***************************************************************************)
MsPerDay == 24 * 60 * 60 * 1000

Fits(v, max) == -max <= v /\ v <= max

Overflow == Err("Execution", <<"Overflow">>)

NullOperand == Err("Internal", <<"DateIntervalExpr does not support non-interval type">>)

Quot(a, b) == IF a >= 0 THEN a \div b ELSE -((-a) \div b)

Rem(a, b) == a - b * Quot(a, b)

date32_add(days, scalar, sign) ==
    IF is_null(scalar)
    THEN NullOperand
    ELSE LET r == days + sign * scalar.v.d
         IN  IF Fits(r, MaxDate32) THEN Ok(r) ELSE Overflow

date64_add(ms, scalar, sign) ==
    IF is_null(scalar)
    THEN NullOperand
    ELSE LET r == ms + sign * scalar.v.d * MsPerDay
         IN  IF Fits(r, MaxDate64) THEN Ok(r) ELSE Overflow

TicksPerSecond(unit) == IF unit = "Second" THEN 1 ELSE 1000

SubPerSecond(sub) == IF sub = "DayTime" THEN 1000 ELSE 1000000000

\* The sub-day part of an interval in ticks of a time unit, rounded down.
SubTicks(t, sub, unit) ==
    (t * TicksPerSecond(unit)) \div SubPerSecond(sub)

\* timestamp + sign * interval, in ticks of the timestamp's unit
ts_add(ts, unit, interval, sign) ==
    LET r == ts + sign * interval.v.d * 86400 * TicksPerSecond(unit)
                + SubTicks(sign * interval.v.t, interval.dt.p, unit)
    IN  IF Fits(r, MaxTs) THEN Ok(Some(0, r)) ELSE Overflow

\* timestamp - timestamp of one unit: a day-time interval
ts_sub(lhs, rhs, unit) ==
    LET ms == (lhs - rhs) * (1000 \div TicksPerSecond(unit))
        d == Quot(ms, MsPerDay)
        t == Rem(ms, MsPerDay)
    IN  IF Fits(d, MaxIvDays) /\ Fits(t, MaxIvSub) THEN Ok(Some(d, t)) ELSE Overflow

\* The type of interval +/- interval: the common subtype, else MonthDayNano.
IntervalResultType(lsub, rsub) ==
    IF lsub = rsub THEN Interval(lsub) ELSE Interval("MonthDayNano")

\* The sub-day part of an interval value as the subtype `to` counts it.
SubAs(t, from, to) == IF from = to THEN t ELSE t * 1000000

interval_op(lhs, lsub, rhs, rsub, sign) ==
    LET to == IntervalResultType(lsub, rsub).p
        d == lhs.d + sign * rhs.d
        t == SubAs(lhs.t, lsub, to) + sign * SubAs(rhs.t, rsub, to)
    IN  IF Fits(d, MaxIvDays) /\ Fits(t, MaxIvSub) THEN Ok(Some(d, t)) ELSE Overflow

(***************************************************************************)
(* ScalarValue::add and ScalarValue::sub, for sign = 1 and sign = -1.      *)
(* Date arithmetic with a null operand fails; a null timestamp or interval *)
(* operand gives a null result.                                            *)
(***************************************************************************)
AsDays(res) == IF res.ok THEN Ok(Some(res.val, 0)) ELSE res

AsMillis(res) == IF res.ok THEN Ok(Some(0, res.val)) ELSE res

AsScalar(dt, res) == IF res.ok THEN Ok(Scalar(dt, res.val)) ELSE res

NotImplemented == Err("Internal", <<"Operator is not implemented for types">>)

scalar_arith(lhs, rhs, sign) ==
    LET lt == lhs.dt
        rt == rhs.dt
        anynull == is_null(lhs) \/ is_null(rhs)
    IN  IF lt.id = "Date32" /\ rt.id = "Interval"
        THEN IF is_null(lhs) THEN NotImplemented
             ELSE AsScalar(Date32, AsDays(date32_add(lhs.v.d, rhs, sign)))
        ELSE IF lt.id = "Date64" /\ rt.id = "Interval"
        THEN IF is_null(lhs) THEN NotImplemented
             ELSE AsScalar(Date64, AsMillis(date64_add(lhs.v.t, rhs, sign)))
        ELSE IF lt.id = "Timestamp" /\ rt.id = "Interval"
        THEN IF anynull THEN Ok(Scalar(lt, None))
             ELSE AsScalar(lt, ts_add(lhs.v.t, lt.p, rhs, sign))
        ELSE IF lt.id = "Interval" /\ rt.id = "Timestamp" /\ sign = 1
        THEN IF anynull THEN Ok(Scalar(rt, None))
             ELSE AsScalar(rt, ts_add(rhs.v.t, rt.p, lhs, sign))
        ELSE IF lt.id = "Timestamp" /\ rt.id = "Timestamp" /\ sign = -1 /\ lt.p = rt.p
        THEN IF anynull THEN Ok(Scalar(Interval("DayTime"), None))
             ELSE AsScalar(Interval("DayTime"), ts_sub(lhs.v.t, rhs.v.t, lt.p))
        ELSE IF lt.id = "Interval" /\ rt.id = "Interval"
        THEN IF anynull THEN Ok(Scalar(IntervalResultType(lt.p, rt.p), None))
             ELSE AsScalar(IntervalResultType(lt.p, rt.p),
                           interval_op(lhs.v, lt.p, rhs.v, rt.p, sign))
        ELSE NotImplemented

scalar_add(lhs, rhs) == scalar_arith(lhs, rhs, 1)

scalar_sub(lhs, rhs) == scalar_arith(lhs, rhs, -1)

(***************************************************************************)
(* The element-wise array transforms of expressions/binary.rs.  Each is    *)
(* the element arithmetic above applied to every non-null element; a null  *)
(* scalar, or a null element on either side, gives a null element.         *)
(***************************************************************************)
AllNull(vals) == [i \in DOMAIN vals |-> None]

AsColumnar(dt, res) == IF res.ok THEN Ok(CVArray(ArrayOf(dt, res.val))) ELSE res

AsArray(dt, res) == IF res.ok THEN Ok(ArrayOf(dt, res.val)) ELSE res

Pairs(lvals, rvals) ==
    {<<lvals[i], rvals[i]>> :
        i \in {j \in DOMAIN lvals : lvals[j].some /\ rvals[j].some}}

try_binary(lvals, rvals, op) ==
    LET both(i) == lvals[i].some /\ rvals[i].some
        bad == {i \in DOMAIN lvals : both(i) /\ ~op[<<lvals[i], rvals[i]>>].ok}
    IN  IF bad # {}
        THEN op[<<lvals[Min(bad)], rvals[Min(bad)]>>]
        ELSE Ok([i \in DOMAIN lvals |->
                    IF both(i) THEN op[<<lvals[i], rvals[i]>>].val ELSE None])

ts_scalar_ts_op(array, scalar) ==
    IF array.dt # scalar.dt
    THEN Err("Internal", <<"Invalid array - scalar types for Timestamp subtraction">>)
    ELSE IF is_null(scalar)
    THEN Ok(CVArray(ArrayOf(Interval("DayTime"), AllNull(array.vals))))
    ELSE AsColumnar(Interval("DayTime"),
            try_unary(array.vals, [e \in Elems(array.vals) |-> ts_sub(e.t, scalar.v.t, array.dt.p)]))

interval_scalar_interval_op(array, sign, scalar) ==
    LET dt == IntervalResultType(array.dt.p, scalar.dt.p)
    IN  IF is_null(scalar)
        THEN Ok(CVArray(ArrayOf(dt, AllNull(array.vals))))
        ELSE AsColumnar(dt,
                try_unary(array.vals,
                    [e \in Elems(array.vals) |-> interval_op(e, array.dt.p, scalar.v, scalar.dt.p, sign)]))

ts_scalar_interval_op(array, sign, scalar) ==
    IF is_null(scalar)
    THEN Ok(CVArray(ArrayOf(array.dt, AllNull(array.vals))))
    ELSE AsColumnar(array.dt,
            try_unary(array.vals, [e \in Elems(array.vals) |-> ts_add(e.t, array.dt.p, scalar, sign)]))

ts_array_op(array_lhs, array_rhs) ==
    IF array_lhs.dt # array_rhs.dt
    THEN Err("Internal", <<"Invalid array types for Timestamp subtraction">>)
    ELSE AsArray(Interval("DayTime"),
            try_binary(array_lhs.vals, array_rhs.vals,
                [p \in Pairs(array_lhs.vals, array_rhs.vals) |->
                    LET l == p[1]
                        r == p[2]
                    IN  ts_sub(l.t, r.t, array_lhs.dt.p)]))

interval_array_op(array_lhs, array_rhs, sign) ==
    AsArray(IntervalResultType(array_lhs.dt.p, array_rhs.dt.p),
        try_binary(array_lhs.vals, array_rhs.vals,
            [p \in Pairs(array_lhs.vals, array_rhs.vals) |->
                LET l == p[1]
                    r == p[2]
                IN  interval_op(l, array_lhs.dt.p, r, array_rhs.dt.p, sign)]))

ts_interval_array_op(array_lhs, sign, array_rhs) ==
    AsArray(array_lhs.dt,
        try_binary(array_lhs.vals, array_rhs.vals,
            [p \in Pairs(array_lhs.vals, array_rhs.vals) |->
                LET l == p[1]
                    r == p[2]
                IN  ts_add(l.t, array_lhs.dt.p, Scalar(array_rhs.dt, r), sign)]))

(***************************************************************************)
(* evaluate_temporal_array and evaluate_temporal_arrays                    *)
(***************************************************************************)
\* The arm (Date32, Interval) with a wrapping add in place of the checked one.
date32_interval_arm_wrapping(array, sign, scalar) ==
    IF is_null(scalar)
    THEN AsColumnar(Date32,
            try_unary(array.vals, [e \in Elems(array.vals) |-> AsDays(date32_add(e.d, scalar, sign))]))
    ELSE Ok(CVArray(ArrayOf(Date32,
            [i \in DOMAIN array.vals |->
                IF array.vals[i].some
                THEN Some(((array.vals[i].d + sign * scalar.v.d + MaxDate32)
                              % (2 * MaxDate32 + 1)) - MaxDate32, 0)
                ELSE None])))

\* The arm (Date32, Interval) that adds the interval whatever the sign.
date32_interval_arm_unsigned(array, sign, scalar) ==
    AsColumnar(Date32,
        try_unary(array.vals, [e \in Elems(array.vals) |-> AsDays(date32_add(e.d, scalar, 1))]))

\* The arm (Date32, Interval): try_unary over date32_add.
date32_interval_arm(array, sign, scalar) ==
    AsColumnar(Date32,
        try_unary(array.vals, [e \in Elems(array.vals) |-> AsDays(date32_add(e.d, scalar, sign))]))

\* The arm (Date64, Interval): try_unary over date64_add.
date64_interval_arm(array, sign, scalar) ==
    AsColumnar(Date64,
        try_unary(array.vals, [e \in Elems(array.vals) |-> AsMillis(date64_add(e.t, scalar, sign))]))

\* evaluate_temporal_array whose arm (Timestamp, Interval) drops the sign.
evaluate_temporal_array_ts_unsigned(array, sign, scalar) ==
    LET at == array.dt
        st == get_datatype(scalar)
    IN  IF at.id = "Date32" /\ st.id = "Interval"
        THEN date32_interval_arm(array, sign, scalar)
        ELSE IF at.id = "Date64" /\ st.id = "Interval"
        THEN date64_interval_arm(array, sign, scalar)
        ELSE IF at.id = "Timestamp" /\ st.id = "Timestamp" /\ sign = -1
        THEN ts_scalar_ts_op(array, scalar)
        ELSE IF at.id = "Interval" /\ st.id = "Interval"
        THEN interval_scalar_interval_op(array, sign, scalar)
        ELSE IF at.id = "Timestamp" /\ st.id = "Interval"
        THEN ts_scalar_interval_op(array, 1, scalar)
        ELSE Err("Execution", <<"Invalid lhs type for DateIntervalExpr", at>>)

\* evaluate_temporal_array whose arm (Timestamp, Timestamp) has no guard on the sign.
evaluate_temporal_array_ts_ts_any_sign(array, sign, scalar) ==
    LET at == array.dt
        st == get_datatype(scalar)
    IN  IF at.id = "Date32" /\ st.id = "Interval"
        THEN date32_interval_arm(array, sign, scalar)
        ELSE IF at.id = "Date64" /\ st.id = "Interval"
        THEN date64_interval_arm(array, sign, scalar)
        ELSE IF at.id = "Timestamp" /\ st.id = "Timestamp"
        THEN ts_scalar_ts_op(array, scalar)
        ELSE IF at.id = "Interval" /\ st.id = "Interval"
        THEN interval_scalar_interval_op(array, sign, scalar)
        ELSE IF at.id = "Timestamp" /\ st.id = "Interval"
        THEN ts_scalar_interval_op(array, sign, scalar)
        ELSE Err("Execution", <<"Invalid lhs type for DateIntervalExpr", at>>)

evaluate_temporal_array(array, sign, scalar) ==
    LET at == array.dt
        st == get_datatype(scalar)
    IN  IF at.id = "Date32" /\ st.id = "Interval"
        THEN date32_interval_arm(array, sign, scalar)
        ELSE IF at.id = "Date64" /\ st.id = "Interval"
        THEN date64_interval_arm(array, sign, scalar)
        ELSE IF at.id = "Timestamp" /\ st.id = "Timestamp" /\ sign = -1
        THEN ts_scalar_ts_op(array, scalar)
        ELSE IF at.id = "Interval" /\ st.id = "Interval"
        THEN interval_scalar_interval_op(array, sign, scalar)
        ELSE IF at.id = "Timestamp" /\ st.id = "Interval"
        THEN ts_scalar_interval_op(array, sign, scalar)
        ELSE Err("Execution", <<"Invalid lhs type for DateIntervalExpr", at>>)

\* evaluate_temporal_arrays whose arm (Interval, Timestamp) has no guard on the sign.
evaluate_temporal_arrays_interval_timestamp_any_sign(array_lhs, sign, array_rhs) ==
    LET lt == array_lhs.dt
        rt == array_rhs.dt
        res == IF lt.id = "Timestamp" /\ rt.id = "Timestamp"
               THEN ts_array_op(array_lhs, array_rhs)
               ELSE IF lt.id = "Interval" /\ rt.id = "Interval"
               THEN interval_array_op(array_lhs, array_rhs, sign)
               ELSE IF lt.id = "Timestamp" /\ rt.id = "Interval"
               THEN ts_interval_array_op(array_lhs, sign, array_rhs)
               ELSE IF lt.id = "Interval" /\ rt.id = "Timestamp"
               THEN ts_interval_array_op(array_rhs, sign, array_lhs)
               ELSE Err("Execution",
                        <<"Invalid array types for DateIntervalExpr", lt, sign, rt>>)
    IN  IF res.ok THEN Ok(CVArray(res.val)) ELSE res

evaluate_temporal_arrays(array_lhs, sign, array_rhs) ==
    LET lt == array_lhs.dt
        rt == array_rhs.dt
        res == IF lt.id = "Timestamp" /\ rt.id = "Timestamp"
               THEN ts_array_op(array_lhs, array_rhs)
               ELSE IF lt.id = "Interval" /\ rt.id = "Interval"
               THEN interval_array_op(array_lhs, array_rhs, sign)
               ELSE IF lt.id = "Timestamp" /\ rt.id = "Interval"
               THEN ts_interval_array_op(array_lhs, sign, array_rhs)
               ELSE IF lt.id = "Interval" /\ rt.id = "Timestamp" /\ sign = 1
               THEN ts_interval_array_op(array_rhs, sign, array_lhs)
               ELSE Err("Execution",
                        <<"Invalid array types for DateIntervalExpr", lt, sign, rt>>)
    IN  IF res.ok THEN Ok(CVArray(res.val)) ELSE res

(***************************************************************************)
(* PhysicalExpr::evaluate.  A record batch has the columns of its schema,  *)
(* all of one length; a literal evaluates to a scalar and a column to the  *)
(* array of the batch.                                                     *)
(***************************************************************************)
RecordBatch(schema, columns) == [schema |-> schema, columns |-> columns]

evaluate_child(expr, batch) ==
    IF expr.kind = "Literal"
    THEN Ok(CVScalar(expr.value))
    ELSE Ok(CVArray(batch.columns[expr.index + 1]))

\* evaluate with the two signs exchanged.
evaluate_sign_swapped(self, batch) ==
    LET lhs_value == evaluate_child(self.lhs, batch)
        rhs_value == evaluate_child(self.rhs, batch)
        sign == IF self.op = "Plus" THEN -1 ELSE 1
    IN  IF ~lhs_value.ok THEN lhs_value
        ELSE IF ~rhs_value.ok THEN rhs_value
        ELSE IF self.op \notin {"Plus", "Minus"}
        THEN Err("Internal", <<"Invalid operator for DateIntervalExpr">>)
        ELSE IF lhs_value.val.shape = "Scalar" /\ rhs_value.val.shape = "Scalar"
        THEN LET r == IF sign > 0
                      THEN scalar_add(lhs_value.val.scalar, rhs_value.val.scalar)
                      ELSE scalar_sub(lhs_value.val.scalar, rhs_value.val.scalar)
             IN  IF r.ok THEN Ok(CVScalar(r.val)) ELSE r
        ELSE IF lhs_value.val.shape = "Array" /\ rhs_value.val.shape = "Scalar"
        THEN evaluate_temporal_array(lhs_value.val.array, sign, rhs_value.val.scalar)
        ELSE IF lhs_value.val.shape = "Array" /\ rhs_value.val.shape = "Array"
        THEN evaluate_temporal_arrays(lhs_value.val.array, sign, rhs_value.val.array)
        ELSE Err("Internal",
                 <<"If RHS of the operation is an array, then LHS also must be">>)

evaluate(self, batch) ==
    LET lhs_value == evaluate_child(self.lhs, batch)
        rhs_value == evaluate_child(self.rhs, batch)
        sign == IF self.op = "Plus" THEN 1 ELSE -1
    IN  IF ~lhs_value.ok THEN lhs_value
        ELSE IF ~rhs_value.ok THEN rhs_value
        ELSE IF self.op \notin {"Plus", "Minus"}
        THEN Err("Internal", <<"Invalid operator for DateIntervalExpr">>)
        ELSE IF lhs_value.val.shape = "Scalar" /\ rhs_value.val.shape = "Scalar"
        THEN LET r == IF sign > 0
                      THEN scalar_add(lhs_value.val.scalar, rhs_value.val.scalar)
                      ELSE scalar_sub(lhs_value.val.scalar, rhs_value.val.scalar)
             IN  IF r.ok THEN Ok(CVScalar(r.val)) ELSE r
        ELSE IF lhs_value.val.shape = "Array" /\ rhs_value.val.shape = "Scalar"
        THEN evaluate_temporal_array(lhs_value.val.array, sign, rhs_value.val.scalar)
        ELSE IF lhs_value.val.shape = "Array" /\ rhs_value.val.shape = "Array"
        THEN evaluate_temporal_arrays(lhs_value.val.array, sign, rhs_value.val.array)
        ELSE Err("Internal",
                 <<"If RHS of the operation is an array, then LHS also must be">>)

\* The part of evaluate after the children's values: the sign of the operator and
\* the dispatch on the two shapes.
evaluate_dispatch(op, lhs_value, rhs_value) ==
    LET sign == IF op = "Plus" THEN 1 ELSE -1
    IN  IF op \notin {"Plus", "Minus"}
        THEN Err("Internal", <<"Invalid operator for DateIntervalExpr">>)
        ELSE IF lhs_value.shape = "Scalar" /\ rhs_value.shape = "Scalar"
        THEN LET r == IF sign > 0
                      THEN scalar_add(lhs_value.scalar, rhs_value.scalar)
                      ELSE scalar_sub(lhs_value.scalar, rhs_value.scalar)
             IN  IF r.ok THEN Ok(CVScalar(r.val)) ELSE r
        ELSE IF lhs_value.shape = "Array" /\ rhs_value.shape = "Scalar"
        THEN evaluate_temporal_array(lhs_value.array, sign, rhs_value.scalar)
        ELSE IF lhs_value.shape = "Array" /\ rhs_value.shape = "Array"
        THEN evaluate_temporal_arrays(lhs_value.array, sign, rhs_value.array)
        ELSE Err("Internal",
                 <<"If RHS of the operation is an array, then LHS also must be">>)

(***************************************************************************)
(* Interval bounds of the constraint solver (crate::intervals).  The two   *)
(* propagation primitives are external to the node: their narrowed bounds  *)
(* are kept as terms over the arguments they were called with, and they    *)
(* fail on bounds of different kinds.                                      *)
(***************************************************************************)
Bound(kind, lo, hi) == [kind |-> kind, lo |-> lo, hi |-> hi]

CERTAINLY_FALSE == Bound("bool", 0, 0)

CERTAINLY_TRUE == Bound("bool", 1, 1)

Bounds == {CERTAINLY_FALSE, CERTAINLY_TRUE, Bound("int", 0, 5)}

Narrowed(fn, side, args) == [fn |-> fn, side |-> side, args |-> args]

propagate_comparison(op, left_child, right_child) ==
    IF left_child.kind # right_child.kind
    THEN Err("Internal", <<"propagate_comparison">>)
    ELSE LET args == <<op, left_child, right_child>>
         IN  Ok(<<Narrowed("propagate_comparison", "left", args),
                  Narrowed("propagate_comparison", "right", args)>>)

propagate_arithmetic(op, parent, left_child, right_child) ==
    IF left_child.kind # right_child.kind \/ parent.kind # left_child.kind
    THEN Err("Internal", <<"propagate_arithmetic">>)
    ELSE LET args == <<op, parent, left_child, right_child>>
         IN  Ok(<<Narrowed("propagate_arithmetic", "left", args),
                  Narrowed("propagate_arithmetic", "right", args)>>)

\* propagate_constraints without the early return on CERTAINLY_FALSE.
propagate_constraints_no_early_return(self, interval, children_bounds) ==
    LET left_interval == children_bounds[1]
        right_interval == children_bounds[2]
        r == IF is_comparison_operator(self.op)
             THEN propagate_comparison(self.op, left_interval, right_interval)
             ELSE propagate_arithmetic(self.op, interval, left_interval, right_interval)
    IN  IF r.ok THEN Ok(<<r.val[1], r.val[2]>>) ELSE r

\* propagate_constraints that returns early on CERTAINLY_FALSE for every operator.
propagate_constraints_early_return_any_op(self, interval, children_bounds) ==
    LET left_interval == children_bounds[1]
        right_interval == children_bounds[2]
    IN  IF interval = CERTAINLY_FALSE
        THEN Ok(<<>>)
        ELSE LET r == IF is_comparison_operator(self.op)
                      THEN propagate_comparison(self.op, left_interval, right_interval)
                      ELSE propagate_arithmetic(self.op, interval,
                                                left_interval, right_interval)
             IN  IF r.ok THEN Ok(<<r.val[1], r.val[2]>>) ELSE r

propagate_constraints(self, interval, children_bounds) ==
    LET left_interval == children_bounds[1]
        right_interval == children_bounds[2]
    IN  IF is_comparison_operator(self.op) /\ interval = CERTAINLY_FALSE
        THEN Ok(<<>>)
        ELSE LET r == IF is_comparison_operator(self.op)
                      THEN propagate_comparison(self.op, left_interval, right_interval)
                      ELSE propagate_arithmetic(self.op, interval,
                                                left_interval, right_interval)
             IN  IF r.ok THEN Ok(<<r.val[1], r.val[2]>>) ELSE r

(***************************************************************************)
(* The inputs of the evaluators: element values, arrays and batches.       *)
(***************************************************************************)
ElemVals(dt) ==
    IF dt = Date32 THEN {Some(0, 0), Some(MaxDate32, 0)}
    ELSE IF dt = Date64 THEN {Some(0, 0), Some(0, MaxDate64)}
    ELSE IF dt = Timestamp("Second") THEN {Some(0, 2), Some(0, MaxTs)}
    ELSE IF dt = Timestamp("Millisecond") THEN {Some(0, 0), Some(0, MaxTs)}
    ELSE IF dt = Interval("DayTime") THEN {Some(1, 0), Some(MaxIvDays, 1)}
    ELSE IF dt = Interval("MonthDayNano") THEN {Some(0, 1000), Some(2, 0)}
    ELSE IF dt = Int64 THEN {Some(0, 1)}
    ELSE {}

ValsOfLen(S, n) == [1..n -> S]

Arrays(dt, withNull, n) ==
    {ArrayOf(dt, vals) :
        vals \in ValsOfLen(ElemVals(dt) \cup (IF withNull THEN {None} ELSE {}), n)}

Batches(schema) ==
    UNION { { RecordBatch(schema, <<a, b>>) :
                a \in Arrays(schema[1].dt, schema[1].nullable, n),
                b \in Arrays(schema[2].dt, schema[2].nullable, n) } :
            n \in 0..MaxLen }

ScalarInputs ==
    UNION { {Scalar(dt, v) : v \in ElemVals(dt) \cup {None}} : dt \in DataTypes }

ArrayInputs == UNION {Arrays(dt, TRUE, n) : dt \in DataTypes, n \in 0..MaxLen}

(***************************************************************************)
(* The state machine.  node is the handle the caller holds (empty before   *)
(* the first successful construction); ret is the last call, with its      *)
(* arguments and its result.  A node is built when the caller holds none   *)
(* (Drop destroys the plan with its node), and a call on the node is taken *)
(* from the state in which a constructor returned it: the other calls      *)
(* leave the node as it is, so every pair of a node and a call on it is    *)
(* reached this way.  workers holds, for each worker of the executor, the   *)
(* call it is in on the shared node; every worker is idle where the node   *)
(* has one caller.                                                         *)
(***************************************************************************)
Workers == {"w1", "w2"}

Idle == [pc |-> "idle"]

Init ==
    /\ node = <<>>
    /\ ret = [fn |-> "none"]
    /\ workers = [w \in Workers |-> Idle]

Constructed ==
    /\ node # <<>>
    /\ ret.fn \in {"try_new", "with_new_children"}
    /\ ret.result.ok

TryNew ==
    /\ node = <<>>
    /\ ret.fn = "none"
    /\ \E lhs \in Exprs, rhs \in Exprs, op \in Operators, input_schema \in Schemas :
        LET r == try_new(lhs, op, rhs, input_schema)
        IN  /\ ret' = [fn |-> "try_new", lhs |-> lhs, op |-> op, rhs |-> rhs,
                       input_schema |-> input_schema, result |-> r]
            /\ node' = IF r.ok THEN <<r.val>> ELSE <<>>
    /\ UNCHANGED workers

WithNewChildren ==
    /\ Constructed
    /\ \E c0 \in Exprs, c1 \in Exprs :
        LET r == with_new_children(node[1], <<c0, c1>>)
        IN  /\ ret' = [fn |-> "with_new_children", self |-> node[1],
                       children |-> <<c0, c1>>, result |-> r]
            /\ node' = IF r.ok THEN <<r.val>> ELSE node
    /\ UNCHANGED workers

Evaluate ==
    /\ Constructed
    /\ \E batch \in Batches(node[1].input_schema) :
        ret' = [fn |-> "evaluate", self |-> node[1], batch |-> batch,
                result |-> evaluate(node[1], batch)]
    /\ UNCHANGED <<node, workers>>

PropagateConstraints ==
    /\ Constructed
    /\ \E interval \in Bounds, l \in Bounds, r \in Bounds :
        ret' = [fn |-> "propagate_constraints", self |-> node[1],
                interval |-> interval, children |-> <<l, r>>,
                result |-> propagate_constraints(node[1], interval, <<l, r>>)]
    /\ UNCHANGED <<node, workers>>

Nullable ==
    /\ Constructed
    /\ \E input_schema \in QuerySchemas :
        ret' = [fn |-> "nullable", self |-> node[1], input_schema |-> input_schema,
                result |-> DateTimeIntervalExpr_nullable(node[1], input_schema)]
    /\ UNCHANGED <<node, workers>>

\* The values a node is compared with: the expressions of the other kinds, and the
\* nodes that try_new builds from the node's own children under any schema.
Others(self) ==
    Exprs \cup
    { r.val : r \in { x \in { try_new(l, op, rr, input_schema) :
                                  l \in {self.lhs, self.rhs},
                                  op \in {"Plus", "Minus"},
                                  rr \in {self.lhs, self.rhs},
                                  input_schema \in Schemas } : x.ok } }

Equals ==
    /\ Constructed
    /\ \E other \in Others(node[1]) :
        ret' = [fn |-> "eq", self |-> node[1], other |-> other,
                equal |-> eq(node[1], other)]
    /\ UNCHANGED <<node, workers>>

Drop ==
    /\ ret.fn # "none"
    /\ node' = <<>>
    /\ ret' = [fn |-> "none"]
    /\ UNCHANGED workers

Next ==
    \/ TryNew
    \/ WithNewChildren
    \/ Evaluate
    \/ PropagateConstraints
    \/ Nullable
    \/ Equals
    \/ Drop

Spec == Init /\ [][Next]_vars

(***************************************************************************)
(* The evaluators and the propagation method as functions of their         *)
(* arguments.  evaluate_temporal_array and evaluate_temporal_arrays are    *)
(* public functions, called here on every array, sign and scalar of the    *)
(* model; propagate_constraints is applied to a node for every value of    *)
(* its op field, so that each arm of its case split is taken.              *)
(***************************************************************************)
Signs == {1, -1}

EvaluateTemporalArray ==
    /\ ret.fn = "none"
    /\ \E array \in ArrayInputs, sign \in Signs, scalar \in ScalarInputs :
        ret' = [fn |-> "evaluate_temporal_array", array |-> array, sign |-> sign,
                scalar |-> scalar,
                result |-> evaluate_temporal_array(array, sign, scalar)]
    /\ UNCHANGED <<node, workers>>

EvaluateTemporalArrays ==
    /\ ret.fn = "none"
    /\ \E n \in 0..MaxLen, lt \in DataTypes, rt \in DataTypes, sign \in Signs :
        \E array_lhs \in Arrays(lt, TRUE, n), array_rhs \in Arrays(rt, TRUE, n) :
            ret' = [fn |-> "evaluate_temporal_arrays", array_lhs |-> array_lhs,
                    sign |-> sign, array_rhs |-> array_rhs,
                    result |-> evaluate_temporal_arrays(array_lhs, sign, array_rhs)]
    /\ UNCHANGED <<node, workers>>

NextArray == EvaluateTemporalArray \/ EvaluateTemporalArrays \/ Drop

SpecArray == Init /\ [][NextArray]_vars

PropagateConstraintsOp ==
    /\ ret.fn = "none"
    /\ \E op \in Operators, interval \in Bounds, l \in Bounds, r \in Bounds :
        LET self == [kind |-> "DateTimeIntervalExpr", op |-> op]
        IN  ret' = [fn |-> "propagate_constraints", self |-> self,
                    interval |-> interval, children |-> <<l, r>>,
                    result |-> propagate_constraints(self, interval, <<l, r>>)]
    /\ UNCHANGED <<node, workers>>

NextPropagate == PropagateConstraintsOp \/ Drop

SpecPropagate == Init /\ [][NextPropagate]_vars

(***************************************************************************)
(* The node shared by the workers of the executor.  The node that try_new  *)
(* returned is held in node; every worker calls it through a shared        *)
(* reference.  evaluate runs in three steps, each of which reads the node: *)
(* the left child's value, the right child's value, then the sign and the  *)
(* dispatch.  A worker's record keeps the node as it was when the call     *)
(* began (self), the arguments, the values computed so far and the result. *)
(* The node is destroyed when no worker is in a call.                      *)
(***************************************************************************)
MaxSharedLen == 1

SharedBatches(schema) ==
    {b \in Batches(schema) : Len(b.columns[1].vals) <= MaxSharedLen}

Busy(w) == workers[w].pc # "idle"

EvaluateLhs(w) ==
    /\ node # <<>>
    /\ ~Busy(w)
    /\ \E batch \in SharedBatches(node[1].input_schema) :
        LET r == evaluate_child(node[1].lhs, batch)
        IN  workers' = [workers EXCEPT ![w] =
                IF r.ok
                THEN [pc |-> "rhs", fn |-> "evaluate", self |-> node[1],
                      batch |-> batch, lhs_value |-> r.val]
                ELSE [pc |-> "done", fn |-> "evaluate", self |-> node[1],
                      batch |-> batch, result |-> r]]
    /\ UNCHANGED <<node, ret>>

EvaluateRhs(w) ==
    /\ node # <<>>
    /\ workers[w].pc = "rhs"
    /\ LET me == workers[w]
           r == evaluate_child(node[1].rhs, me.batch)
       IN  workers' = [workers EXCEPT ![w] =
                IF r.ok
                THEN [pc |-> "dispatch", fn |-> "evaluate", self |-> me.self,
                      batch |-> me.batch, lhs_value |-> me.lhs_value,
                      rhs_value |-> r.val]
                ELSE [pc |-> "done", fn |-> "evaluate", self |-> me.self,
                      batch |-> me.batch, result |-> r]]
    /\ UNCHANGED <<node, ret>>

EvaluateDispatch(w) ==
    /\ node # <<>>
    /\ workers[w].pc = "dispatch"
    /\ LET me == workers[w]
       IN  workers' = [workers EXCEPT ![w] =
                [pc |-> "done", fn |-> "evaluate", self |-> me.self,
                 batch |-> me.batch,
                 result |-> evaluate_dispatch(node[1].op, me.lhs_value,
                                              me.rhs_value)]]
    /\ UNCHANGED <<node, ret>>

\* with_new_children by one owner, with children taken from the node's own.
SharedWithNewChildren(w) ==
    /\ node # <<>>
    /\ ~Busy(w)
    /\ \E c0 \in {node[1].lhs, node[1].rhs}, c1 \in {node[1].lhs, node[1].rhs} :
        LET r == with_new_children_shared(node[1], <<c0, c1>>)
        IN  /\ workers' = [workers EXCEPT ![w] =
                    [pc |-> "done", fn |-> "with_new_children", self |-> node[1],
                     children |-> <<c0, c1>>, result |-> r.result]]
            /\ node' = <<r.shared>>
    /\ UNCHANGED ret

SharedChildren(w) ==
    /\ node # <<>>
    /\ ~Busy(w)
    /\ workers' = [workers EXCEPT ![w] =
            [pc |-> "done", fn |-> "children", self |-> node[1],
             vec |-> children(node[1])]]
    /\ UNCHANGED <<node, ret>>

SharedNullable(w) ==
    /\ node # <<>>
    /\ ~Busy(w)
    /\ workers' = [workers EXCEPT ![w] =
            [pc |-> "done", fn |-> "nullable", self |-> node[1],
             result |-> DateTimeIntervalExpr_nullable(node[1],
                                                      node[1].input_schema)]]
    /\ UNCHANGED <<node, ret>>

Return(w) ==
    /\ workers[w].pc = "done"
    /\ workers' = [workers EXCEPT ![w] = Idle]
    /\ UNCHANGED <<node, ret>>

DropShared ==
    /\ \A w \in Workers : ~Busy(w)
    /\ Drop

NextShared ==
    \/ TryNew
    \/ \E w \in Workers :
        \/ EvaluateLhs(w)
        \/ EvaluateRhs(w)
        \/ EvaluateDispatch(w)
        \/ SharedWithNewChildren(w)
        \/ SharedChildren(w)
        \/ SharedNullable(w)
        \/ Return(w)
    \/ DropShared

SpecShared == Init /\ [][NextShared]_vars

(***************************************************************************)
(* The accepted combinations of the type validator, as a table of triples. *)
(***************************************************************************)
TimestampTypes == {Timestamp(u) : u \in TimeUnits}

IntervalTypes == {Interval(s) : s \in IntervalUnits}

AcceptedTable ==
    {<<l, op, r>> : l \in {Date32, Date64} \cup TimestampTypes,
                    op \in {"Plus", "Minus"}, r \in IntervalTypes}
        \cup {<<l, "Minus", r>> : l \in TimestampTypes, r \in TimestampTypes}
        \cup {<<l, "Plus", r>> : l \in IntervalTypes, r \in TimestampTypes}
        \cup {<<l, op, r>> : l \in IntervalTypes, op \in {"Plus", "Minus"},
                             r \in IntervalTypes}

Triple(lhs, op, rhs, input_schema) ==
    <<data_type(lhs, input_schema), op, data_type(rhs, input_schema)>>

NodeTriple(n) == Triple(n.lhs, n.op, n.rhs, n.input_schema)

(***************************************************************************)
(* C1: try_new succeeds if and only if (left type, operator, right type)   *)
(* is in the accepted table; on success it returns the node of its         *)
(* arguments, and otherwise an Execution error and no node.                *)
(***************************************************************************)
C1_TypeGate ==
    ret.fn = "try_new" =>
        LET t == Triple(ret.lhs, ret.op, ret.rhs, ret.input_schema)
        IN  /\ ret.result.ok <=> t \in AcceptedTable
            /\ ret.result.ok =>
                /\ node = <<ret.result.val>>
                /\ ret.result.val.lhs = ret.lhs
                /\ ret.result.val.op = ret.op
                /\ ret.result.val.rhs = ret.rhs
                /\ ret.result.val.input_schema = ret.input_schema
            /\ ~ret.result.ok =>
                /\ node = <<>>
                /\ ret.result.kind = "Execution"

\* try_new has rejected Interval Minus Timestamp.
C1_Witness ==
    /\ ret.fn = "try_new"
    /\ ~ret.result.ok
    /\ ret.op = "Minus"
    /\ data_type(ret.lhs, ret.input_schema).id = "Interval"
    /\ data_type(ret.rhs, ret.input_schema).id = "Timestamp"

(***************************************************************************)
(* C2: every node that try_new or with_new_children has produced has its   *)
(* triple, under its stored input schema, in the accepted table, and so an *)
(* operator Plus or Minus; evaluate never returns the 'Invalid operator'   *)
(* error; with_new_children succeeds exactly when the new children form an *)
(* accepted triple with the node's operator under its stored schema.       *)
(***************************************************************************)
C2_NodeInvariant ==
    /\ node # <<>> =>
        /\ NodeTriple(node[1]) \in AcceptedTable
        /\ node[1].op \in {"Plus", "Minus"}
    /\ ret.fn = "with_new_children" =>
        /\ ret.result.ok <=>
              Triple(ret.children[1], ret.self.op, ret.children[2],
                     ret.self.input_schema) \in AcceptedTable
        /\ ret.result.ok => NodeTriple(ret.result.val) \in AcceptedTable
    /\ ret.fn = "evaluate" =>
        ~(/\ ~ret.result.ok
          /\ ret.result.msg[1] = "Invalid operator for DateIntervalExpr")

\* with_new_children has refused children that the node's operator does not accept,
\* although try_new accepts them with another operator.
C2_Witness ==
    /\ ret.fn = "with_new_children"
    /\ ~ret.result.ok
    /\ ret.self.op = "Plus"
    /\ Triple(ret.children[1], "Minus", ret.children[2], ret.self.input_schema)
          \in AcceptedTable

(***************************************************************************)
(* C4: with_new_children applied to the node's own children() succeeds and *)
(* returns a node equal to the original under eq, with the operator and    *)
(* the input schema of the original; children() is the pair of the left    *)
(* and the right child, in this order.                                     *)
(***************************************************************************)
C4_RoundTrip ==
    /\ node # <<>> =>
        /\ Len(children(node[1])) = 2
        /\ children(node[1])[1] = node[1].lhs
        /\ children(node[1])[2] = node[1].rhs
    /\ (ret.fn = "with_new_children" /\ ret.children = children(ret.self)) =>
        /\ ret.result.ok
        /\ eq(ret.result.val, ret.self)
        /\ eq(ret.self, ret.result.val)
        /\ ret.result.val.op = ret.self.op
        /\ ret.result.val.input_schema = ret.self.input_schema

\* A Minus node has been rebuilt from its own children.
C4_Witness ==
    /\ ret.fn = "with_new_children"
    /\ ret.children = children(ret.self)
    /\ ret.self.op = "Minus"
    /\ ret.result.ok
    /\ node = <<ret.result.val>>

(***************************************************************************)
(* C3: evaluate on a node that try_new accepted, with an array on the left *)
(* and a scalar or an array on the right, never fails with the             *)
(* unsupported-type error of evaluate_temporal_array ('Invalid lhs type')  *)
(* or of evaluate_temporal_arrays ('Invalid array types').                 *)
(***************************************************************************)
C3_NoUnsupportedTypeAtEvaluate ==
    (ret.fn = "evaluate" /\ ret.self.lhs.kind = "Column") =>
        ~(/\ ~ret.result.ok
          /\ ret.result.msg[1] \in {"Invalid lhs type for DateIntervalExpr",
                                    "Invalid array types for DateIntervalExpr"})

\* evaluate has failed in evaluate_temporal_array on Interval + Timestamp, an array
\* on the left and a scalar on the right, which try_new accepted.
C3_IntervalPlusTimestampFails ==
    /\ ret.fn = "evaluate"
    /\ ret.self.op = "Plus"
    /\ ret.self.lhs.kind = "Column"
    /\ ret.self.rhs.kind = "Literal"
    /\ NodeTriple(ret.self) \in AcceptedTable
    /\ data_type(ret.self.lhs, ret.self.input_schema).id = "Interval"
    /\ data_type(ret.self.rhs, ret.self.input_schema).id = "Timestamp"
    /\ ~ret.result.ok
    /\ ret.result.msg[1] = "Invalid lhs type for DateIntervalExpr"

(***************************************************************************)
(* C7: a null operand fails.  try_new rejects the untyped NULL (data type  *)
(* Null) on either side, whatever the operator and the other side, so that *)
(* no node is evaluated; a date literal with a null interval literal, and  *)
(* a null date literal with an interval literal, fail at evaluate.         *)
(***************************************************************************)
C7_NullOperandsFail ==
    /\ (/\ ret.fn = "try_new"
        /\ \/ data_type(ret.lhs, ret.input_schema) = NullType
           \/ data_type(ret.rhs, ret.input_schema) = NullType) =>
            /\ ~ret.result.ok
            /\ node = <<>>
    /\ (/\ ret.fn = "evaluate"
        /\ ret.self.lhs.kind = "Literal"
        /\ ret.self.rhs.kind = "Literal"
        /\ ret.self.lhs.value.dt \in {Date32, Date64}
        /\ is_null(ret.self.lhs.value) \/ is_null(ret.self.rhs.value)) =>
            ~ret.result.ok

\* try_new has rejected a date plus the untyped NULL.
C7_Witness ==
    /\ ret.fn = "try_new"
    /\ ret.op = "Plus"
    /\ data_type(ret.lhs, ret.input_schema) = Date32
    /\ data_type(ret.rhs, ret.input_schema) = NullType
    /\ ~ret.result.ok
    /\ node = <<>>

(***************************************************************************)
(* C9: evaluate dispatches on the shapes of the two child values.  Two     *)
(* scalars give the scalar lhs.add(rhs) for Plus and lhs.sub(rhs) for      *)
(* Minus; an array and a scalar give evaluate_temporal_array, two arrays   *)
(* evaluate_temporal_arrays, both with sign 1 for Plus and -1 for Minus; a *)
(* scalar and an array give an Internal error and no value.                *)
(***************************************************************************)
C9_Dispatch ==
    ret.fn = "evaluate" =>
        LET n == ret.self
            sign == IF n.op = "Plus" THEN 1 ELSE -1
            lscalar == n.lhs.kind = "Literal"
            rscalar == n.rhs.kind = "Literal"
            larray == ret.batch.columns[n.lhs.index + 1]
            rarray == ret.batch.columns[n.rhs.index + 1]
        IN  /\ n.op \in {"Plus", "Minus"}
            /\ (lscalar /\ rscalar) =>
                LET e == IF n.op = "Plus"
                         THEN scalar_add(n.lhs.value, n.rhs.value)
                         ELSE scalar_sub(n.lhs.value, n.rhs.value)
                IN  IF e.ok
                    THEN ret.result = Ok(CVScalar(e.val))
                    ELSE ret.result = e
            /\ (~lscalar /\ rscalar) =>
                ret.result = evaluate_temporal_array(larray, sign, n.rhs.value)
            /\ (~lscalar /\ ~rscalar) =>
                ret.result = evaluate_temporal_arrays(larray, sign, rarray)
            /\ (lscalar /\ ~rscalar) =>
                /\ ~ret.result.ok
                /\ ret.result.kind = "Internal"
                /\ "val" \notin DOMAIN ret.result

\* evaluate has refused a scalar on the left of an array, for operand types that
\* try_new accepted.
C9_Witness ==
    /\ ret.fn = "evaluate"
    /\ ret.self.lhs.kind = "Literal"
    /\ ret.self.rhs.kind = "Column"
    /\ Len(ret.batch.columns[1].vals) > 0
    /\ ~ret.result.ok
    /\ ret.result.kind = "Internal"

(***************************************************************************)
(* C5: scalar/array equivalence.  For a timestamp scalar T and an interval *)
(* scalar I, evaluate_temporal_array on the one-element array of the left  *)
(* scalar agrees with the scalar arithmetic in the five cases T + I,       *)
(* T - I, T - T, I - I and I + I.                                          *)
(***************************************************************************)
ExperimentLeft == Scalar(ret.array.dt, ret.array.vals[1])

ExperimentCase ==
    /\ ret.fn = "evaluate_temporal_array"
    /\ Len(ret.array.vals) = 1
    /\ \/ ret.array.dt.id = "Timestamp" /\ ret.scalar.dt.id = "Interval"
       \/ ret.array.dt.id = "Timestamp" /\ ret.scalar = ExperimentLeft /\ ret.sign = -1
       \/ ret.array.dt.id = "Interval" /\ ret.scalar = ExperimentLeft

ExperimentScalar ==
    IF ret.sign = 1
    THEN scalar_add(ExperimentLeft, ret.scalar)
    ELSE scalar_sub(ExperimentLeft, ret.scalar)

DateArrayCase ==
    /\ ret.fn = "evaluate_temporal_array"
    /\ ret.array.dt \in {Date32, Date64}
    /\ ret.scalar.dt.id = "Interval"
    /\ ~is_null(ret.scalar)

ExactSum(e) ==
    IF ret.array.dt = Date32
    THEN e.d + ret.sign * ret.scalar.v.d
    ELSE e.t + ret.sign * ret.scalar.v.d * MsPerDay

DateWidth == IF ret.array.dt = Date32 THEN MaxDate32 ELSE MaxDate64

Overflows(i) ==
    /\ ret.array.vals[i].some
    /\ ~Fits(ExactSum(ret.array.vals[i]), DateWidth)

ElementOf(v) == IF ret.array.dt = Date32 THEN v.d ELSE v.t

C6_OverflowFails ==
    DateArrayCase =>
        /\ (\E i \in DOMAIN ret.array.vals : Overflows(i)) =>
              /\ ~ret.result.ok
              /\ "val" \notin DOMAIN ret.result
        /\ ret.result.ok =>
              /\ Len(ret.result.val.array.vals) = Len(ret.array.vals)
              /\ \A i \in DOMAIN ret.array.vals :
                    ret.array.vals[i].some =>
                        /\ ret.result.val.array.vals[i].some
                        /\ ElementOf(ret.result.val.array.vals[i])
                              = ExactSum(ret.array.vals[i])
                        /\ Fits(ElementOf(ret.result.val.array.vals[i]), DateWidth)

\* The first element fits and a later one overflows: the call has failed as a whole.
C6_Witness ==
    /\ DateArrayCase
    /\ Len(ret.array.vals) >= 2
    /\ ret.array.vals[1].some
    /\ ~Overflows(1)
    /\ Overflows(2)
    /\ ~ret.result.ok

(***************************************************************************)
(* C8: evaluate_temporal_array on a Date32 array and a day-time interval   *)
(* of d days and 0 ms with sign s returns a Date32 array of the same       *)
(* length, with e + s*d for every non-null element e and null for every    *)
(* null element, at the same index; it fails only when a non-null element  *)
(* overflows, never for a null element.                                    *)
(***************************************************************************)
DaysCase ==
    /\ ret.fn = "evaluate_temporal_array"
    /\ ret.array.dt = Date32
    /\ ret.scalar.dt = Interval("DayTime")
    /\ ~is_null(ret.scalar)
    /\ ret.scalar.v.t = 0

C8_DateArrayArithmetic ==
    DaysCase =>
        /\ ret.result.ok =>
              /\ ret.result.val.shape = "Array"
              /\ ret.result.val.array.dt = Date32
              /\ Len(ret.result.val.array.vals) = Len(ret.array.vals)
              /\ \A i \in DOMAIN ret.array.vals :
                    ret.result.val.array.vals[i] =
                        IF ret.array.vals[i].some
                        THEN Some(ret.array.vals[i].d + ret.sign * ret.scalar.v.d, 0)
                        ELSE None
        /\ ~ret.result.ok =>
              \E i \in DOMAIN ret.array.vals :
                  /\ ret.array.vals[i].some
                  /\ ~Fits(ret.array.vals[i].d + ret.sign * ret.scalar.v.d, MaxDate32)

\* Days have been subtracted from an array with a null and a non-null element.
C8_Witness ==
    /\ DaysCase
    /\ ret.sign = -1
    /\ ret.scalar.v.d > 0
    /\ ret.result.ok
    /\ \E i, j \in DOMAIN ret.array.vals :
          /\ ~ret.array.vals[i].some
          /\ ~ret.result.val.array.vals[i].some
          /\ ret.array.vals[j].some
          /\ ret.result.val.array.vals[j].d = ret.array.vals[j].d - ret.scalar.v.d

(***************************************************************************)
(* C10: propagate_constraints returns an empty result for a comparison     *)
(* operator with the target CERTAINLY_FALSE, whatever the primitives would *)
(* do; else the result of propagate_comparison(op, left, right) for a      *)
(* comparison operator; else the result of propagate_arithmetic(op,        *)
(* target, left, right).  An error of the primitive is its error.          *)
(***************************************************************************)
C10_PropagateCases ==
    ret.fn = "propagate_constraints" =>
        LET op == ret.self.op
            left == ret.children[1]
            right == ret.children[2]
        IN  IF op \in {"Eq", "Lt"} /\ ret.interval = CERTAINLY_FALSE
            THEN ret.result = Ok(<<>>)
            ELSE IF op \in {"Eq", "Lt"}
            THEN ret.result = propagate_comparison(op, left, right)
            ELSE ret.result = propagate_arithmetic(op, ret.interval, left, right)

\* A comparison with the target CERTAINLY_FALSE has returned the empty result for
\* bounds on which propagate_comparison fails.
C10_Witness ==
    /\ ret.fn = "propagate_constraints"
    /\ ret.self.op = "Lt"
    /\ ret.interval = CERTAINLY_FALSE
    /\ ~propagate_comparison("Lt", ret.children[1], ret.children[2]).ok
    /\ ret.result = Ok(<<>>)

(***************************************************************************)
(* C11: on a node that try_new or with_new_children produced, for every    *)
(* target bound, CERTAINLY_FALSE included, propagate_constraints takes the *)
(* arithmetic branch: a successful call returns exactly two entries, the   *)
(* narrowed bound of the left child and then that of the right child, and  *)
(* never the empty result of the comparison branch.                        *)
(***************************************************************************)
C11_TwoEntries ==
    (ret.fn = "propagate_constraints" /\ node # <<>> /\ ret.self = node[1]) =>
        LET p == propagate_arithmetic(ret.self.op, ret.interval,
                                      ret.children[1], ret.children[2])
        IN  /\ ~is_comparison_operator(ret.self.op)
            /\ ret.result.ok <=> p.ok
            /\ ret.result.ok =>
                  /\ Len(ret.result.val) = 2
                  /\ ret.result.val[1] = p.val[1]
                  /\ ret.result.val[1].side = "left"
                  /\ ret.result.val[2] = p.val[2]
                  /\ ret.result.val[2].side = "right"
                  /\ ret.result # Ok(<<>>)

\* A Minus node has propagated the target CERTAINLY_FALSE to its two children.
C11_Witness ==
    /\ ret.fn = "propagate_constraints"
    /\ node # <<>>
    /\ ret.self = node[1]
    /\ ret.self.op = "Minus"
    /\ ret.interval = CERTAINLY_FALSE
    /\ ret.result.ok
    /\ Len(ret.result.val) = 2

(***************************************************************************)
(* C12: nullable(schema) of the node is the left child's nullable(schema), *)
(* for every schema: an error of the left child is returned as it is, the  *)
(* right child takes no part (the node with any other right child reports  *)
(* the same), and a non-nullable left child with a nullable right child    *)
(* gives a non-nullable node.                                              *)
(***************************************************************************)
C12_NullableIsLeft ==
    ret.fn = "nullable" =>
        LET l == nullable(ret.self.lhs, ret.input_schema)
            r == nullable(ret.self.rhs, ret.input_schema)
        IN  /\ ret.result = l
            /\ ~l.ok => (~ret.result.ok /\ ret.result = l)
            /\ (l = Ok(FALSE) /\ r = Ok(TRUE)) => ret.result = Ok(FALSE)
            /\ \A rhs \in Exprs :
                  DateTimeIntervalExpr_nullable([ret.self EXCEPT !.rhs = rhs],
                                                ret.input_schema) = ret.result

\* A node with a non-nullable left column and a nullable right column has reported
\* that it is not nullable.
C12_Witness ==
    /\ ret.fn = "nullable"
    /\ ret.self.lhs.kind = "Column"
    /\ ret.self.rhs.kind = "Column"
    /\ nullable(ret.self.lhs, ret.input_schema) = Ok(FALSE)
    /\ nullable(ret.self.rhs, ret.input_schema) = Ok(TRUE)
    /\ ret.result = Ok(FALSE)

\* The left child's nullable has failed, and the node's with it.
C12_LeftErrorReached ==
    /\ ret.fn = "nullable"
    /\ ~nullable(ret.self.lhs, ret.input_schema).ok
    /\ ~ret.result.ok

C14_StructuralEquality ==
    ret.fn = "eq" =>
        /\ ret.equal <=>
              /\ ret.other.kind = "DateTimeIntervalExpr"
              /\ ret.other.lhs = ret.self.lhs
              /\ ret.other.op = ret.self.op
              /\ ret.other.rhs = ret.self.rhs
        /\ ret.other.kind # "DateTimeIntervalExpr" => ~ret.equal
        /\ (\E input_schema \in Schemas :
                ret.other = [ret.self EXCEPT !.input_schema = input_schema])
              => ret.equal

\* Two nodes that try_new built under different input schemas have compared equal.
C14_Witness ==
    /\ ret.fn = "eq"
    /\ ret.other.kind = "DateTimeIntervalExpr"
    /\ ret.other.input_schema # ret.self.input_schema
    /\ try_new(ret.other.lhs, ret.other.op, ret.other.rhs,
               ret.other.input_schema) = Ok(ret.other)
    /\ ret.equal

\* A node has compared unequal to a node with its children exchanged.
C14_ExchangedChildrenReached ==
    /\ ret.fn = "eq"
    /\ ret.other.kind = "DateTimeIntervalExpr"
    /\ ret.other.lhs = ret.self.rhs
    /\ ret.other.rhs = ret.self.lhs
    /\ ret.other.op = ret.self.op
    /\ ~ret.equal

(***************************************************************************)
(* C15: the dispatch table of evaluate_temporal_arrays, for every pair of  *)
(* element types and both signs.  (Timestamp, Timestamp) is the            *)
(* element-wise left minus right whatever the sign; (Interval, Interval)   *)
(* and (Timestamp, Interval) apply the sign; (Interval, Timestamp) with    *)
(* sign 1 is (Timestamp, Interval) with the operands exchanged; (Interval, *)
(* Timestamp) with sign -1 and every other pair fail with an Execution     *)
(* error that names the two element types and the sign.  A success is an   *)
(* Array value.                                                            *)
(***************************************************************************)
ArrayResult(res) == IF res.ok THEN Ok(CVArray(res.val)) ELSE res

ArraysTable(lt, sign, rt) ==
    \/ lt.id = "Timestamp" /\ rt.id = "Timestamp"
    \/ lt.id = "Interval" /\ rt.id = "Interval"
    \/ lt.id = "Timestamp" /\ rt.id = "Interval"
    \/ lt.id = "Interval" /\ rt.id = "Timestamp" /\ sign = 1

C15_ArraysDispatch ==
    ret.fn = "evaluate_temporal_arrays" =>
        LET l == ret.array_lhs
            r == ret.array_rhs
            lt == l.dt
            rt == r.dt
            sign == ret.sign
        IN  /\ (lt.id = "Timestamp" /\ rt.id = "Timestamp") =>
                  /\ ret.result = ArrayResult(ts_array_op(l, r))
                  /\ ret.result = evaluate_temporal_arrays(l, -sign, r)
                  /\ ret.result.ok =>
                        \A i \in DOMAIN l.vals :
                            ret.result.val.array.vals[i] =
                                IF l.vals[i].some /\ r.vals[i].some
                                THEN ts_sub(l.vals[i].t, r.vals[i].t, lt.p).val
                                ELSE None
            /\ (lt.id = "Interval" /\ rt.id = "Interval") =>
                  /\ ret.result = ArrayResult(interval_array_op(l, r, sign))
                  /\ ret.result.ok =>
                        \A i \in DOMAIN l.vals :
                            ret.result.val.array.vals[i] =
                                IF l.vals[i].some /\ r.vals[i].some
                                THEN interval_op(l.vals[i], lt.p,
                                                 r.vals[i], rt.p, sign).val
                                ELSE None
            /\ (lt.id = "Timestamp" /\ rt.id = "Interval") =>
                  /\ ret.result = ArrayResult(ts_interval_array_op(l, sign, r))
                  /\ ret.result.ok =>
                        \A i \in DOMAIN l.vals :
                            ret.result.val.array.vals[i] =
                                IF l.vals[i].some /\ r.vals[i].some
                                THEN ts_add(l.vals[i].t, lt.p,
                                            Scalar(rt, r.vals[i]), sign).val
                                ELSE None
            /\ (lt.id = "Interval" /\ rt.id = "Timestamp" /\ sign = 1) =>
                  ret.result = evaluate_temporal_arrays(r, 1, l)
            /\ ~ArraysTable(lt, sign, rt) =>
                  /\ ~ret.result.ok
                  /\ "val" \notin DOMAIN ret.result
                  /\ ret.result.kind = "Execution"
                  /\ ret.result.msg
                        = <<"Invalid array types for DateIntervalExpr", lt, sign, rt>>
            /\ ret.result.ok => ret.result.val.shape = "Array"

\* An interval array plus a timestamp array has given timestamps.
C15_Witness ==
    /\ ret.fn = "evaluate_temporal_arrays"
    /\ ret.array_lhs.dt.id = "Interval"
    /\ ret.array_rhs.dt.id = "Timestamp"
    /\ ret.sign = 1
    /\ ret.result.ok
    /\ ret.result.val.shape = "Array"
    /\ ret.result.val.array.dt = ret.array_rhs.dt
    /\ \E i \in DOMAIN ret.array_lhs.vals :
          /\ ret.result.val.array.vals[i].some
          /\ ret.result.val.array.vals[i] # ret.array_rhs.vals[i]

\* An interval array minus a timestamp array has failed.
C15_IntervalMinusTimestampReached ==
    /\ ret.fn = "evaluate_temporal_arrays"
    /\ ret.array_lhs.dt.id = "Interval"
    /\ ret.array_rhs.dt.id = "Timestamp"
    /\ ret.sign = -1
    /\ ~ret.result.ok
    /\ ret.result.kind = "Execution"

\* Two timestamp arrays have given their differences for sign 1.
C15_TimestampsSignIgnoredReached ==
    /\ ret.fn = "evaluate_temporal_arrays"
    /\ ret.array_lhs.dt.id = "Timestamp"
    /\ ret.array_rhs.dt.id = "Timestamp"
    /\ ret.sign = 1
    /\ ret.result.ok
    /\ \E i \in DOMAIN ret.array_lhs.vals :
          /\ ret.result.val.array.vals[i].some
          /\ ret.result.val.array.vals[i].t # 0

(***************************************************************************)
(* C16: the dispatch table of evaluate_temporal_array, for every pair of   *)
(* an array element type and a scalar type and both signs.  (Date32,       *)
(* Interval), (Date64, Interval), (Interval, Interval) and (Timestamp,     *)
(* Interval) are handled for both signs, (Timestamp, Timestamp) for sign   *)
(* -1 only; (Timestamp, Timestamp) with sign 1 and every other pair fail   *)
(* with an Execution error that names the element type of the array.  A    *)
(* success is an Array value.                                              *)
(***************************************************************************)
ArrayTable(at, sign, st) ==
    \/ at.id \in {"Date32", "Date64", "Interval", "Timestamp"} /\ st.id = "Interval"
    \/ at.id = "Timestamp" /\ st.id = "Timestamp" /\ sign = -1

UnsupportedArrayType(res, at) ==
    /\ ~res.ok
    /\ "val" \notin DOMAIN res
    /\ res.kind = "Execution"
    /\ res.msg = <<"Invalid lhs type for DateIntervalExpr", at>>

C16_ArrayDispatch ==
    ret.fn = "evaluate_temporal_array" =>
        LET a == ret.array
            at == a.dt
            st == get_datatype(ret.scalar)
            sign == ret.sign
        IN  /\ (at.id = "Date32" /\ st.id = "Interval") =>
                  ret.result = date32_interval_arm(a, sign, ret.scalar)
            /\ (at.id = "Date64" /\ st.id = "Interval") =>
                  ret.result = date64_interval_arm(a, sign, ret.scalar)
            /\ (at.id = "Interval" /\ st.id = "Interval") =>
                  ret.result = interval_scalar_interval_op(a, sign, ret.scalar)
            /\ (at.id = "Timestamp" /\ st.id = "Interval") =>
                  ret.result = ts_scalar_interval_op(a, sign, ret.scalar)
            /\ (at.id = "Timestamp" /\ st.id = "Timestamp" /\ sign = -1) =>
                  ret.result = ts_scalar_ts_op(a, ret.scalar)
            /\ ArrayTable(at, sign, st) => ~UnsupportedArrayType(ret.result, at)
            /\ ~ArrayTable(at, sign, st) => UnsupportedArrayType(ret.result, at)
            /\ ret.result.ok =>
                  /\ ret.result.val.shape = "Array"
                  /\ Len(ret.result.val.array.vals) = Len(a.vals)

\* A timestamp array plus a timestamp scalar has failed, naming the array's type.
C16_Witness ==
    /\ ret.fn = "evaluate_temporal_array"
    /\ ret.array.dt.id = "Timestamp"
    /\ ret.scalar.dt = ret.array.dt
    /\ ret.sign = 1
    /\ Len(ret.array.vals) > 0
    /\ ~ret.result.ok
    /\ ret.result.kind = "Execution"
    /\ ret.result.msg = <<"Invalid lhs type for DateIntervalExpr", ret.array.dt>>

\* A timestamp array minus a timestamp scalar has given intervals.
C16_TimestampMinusTimestampReached ==
    /\ ret.fn = "evaluate_temporal_array"
    /\ ret.array.dt.id = "Timestamp"
    /\ ret.scalar.dt = ret.array.dt
    /\ ret.sign = -1
    /\ ret.result.ok
    /\ ret.result.val.array.dt = Interval("DayTime")
    /\ \E i \in DOMAIN ret.array.vals : ret.result.val.array.vals[i].some

\* A date array with a timestamp scalar has failed.
C16_DateWithTimestampReached ==
    /\ ret.fn = "evaluate_temporal_array"
    /\ ret.array.dt = Date64
    /\ ret.scalar.dt.id = "Timestamp"
    /\ UnsupportedArrayType(ret.result, Date64)

====
